---- MODULE Spec2Model ----
(***************************************************************************)
(* ntex-helmet: a policy set (Helmet) of security header specs, rendered   *)
(* once by Middleware::create into a HeaderMap and appended to every       *)
(* successful response by HelmetMiddleware::call.                          *)
(***************************************************************************)
EXTENDS Integers, Sequences, FiniteSets, TLC

(***************************************************************************)
(* Bounds of the model.                                                    *)
(***************************************************************************)
\* number of Helmet::add calls made on top of the constructed Helmet
MaxAdds == 2
\* number of requests handed to HelmetMiddleware::call (ids 1..NumRequests)
NumRequests == 2
\* number of builder methods called on one header after its constructor
MaxCalls == 3
\* number of times name() and value() are asked of one header
MaxRenders == 2
\* number of times the application changes what a header of its own renders
MaxEpoch == 2

(***************************************************************************)
(* Strings.  A Rust String / &str is a TLA+ string; Head, Tail, Len and \o *)
(* give access to its characters.                                          *)
(***************************************************************************)
\* Option<T>
None == <<>>
Some(x) == <<x>>

\* [&str]::join(sep)
RECURSIVE Join(_, _)
Join(values, sep) ==
    IF values = <<>> THEN ""
    ELSE IF Len(values) = 1 THEN values[1]
    ELSE values[1] \o sep \o Join(Tail(values), sep)

UpperChars == <<"A","B","C","D","E","F","G","H","I","J","K","L","M",
                "N","O","P","Q","R","S","T","U","V","W","X","Y","Z">>
LowerChars == <<"a","b","c","d","e","f","g","h","i","j","k","l","m",
                "n","o","p","q","r","s","t","u","v","w","x","y","z">>
DigitChars == {"0","1","2","3","4","5","6","7","8","9"}
\* the other characters of an HTTP token (RFC 7230 tchar); the backquote is one
\* too, but no TLA+ string can hold it
TokenSymbols == {"!","#","$","%","&","'","*","+","-",".","^","_","|","~"}
\* control characters (other than tab) a TLA+ string can hold
ControlChars == {"\n", "\r", "\f"}

Range(f) == {f[i] : i \in DOMAIN f}

Reverse(seq) == [i \in 1..Len(seq) |-> seq[Len(seq) + 1 - i]]

TokenChars == Range(UpperChars) \cup Range(LowerChars) \cup DigitChars \cup TokenSymbols

IsTokenChar(c) == c \in TokenChars

\* the lower-case letter of each upper-case letter
LowerOf == [c \in Range(UpperChars) |->
               LowerChars[CHOOSE i \in DOMAIN UpperChars : UpperChars[i] = c]]

ToLowerChar(c) == IF c \in DOMAIN LowerOf THEN LowerOf[c] ELSE c

\* lower-cases every character (split in halves: the recursion stays shallow)
RECURSIVE LowerCased(_)
LowerCased(s) ==
    IF s = "" THEN ""
    ELSE IF Len(s) = 1 THEN ToLowerChar(s)
    ELSE LET half == Len(s) \div 2
         IN  LowerCased(SubSeq(s, 1, half)) \o LowerCased(SubSeq(s, half + 1, Len(s)))

\* the names the built-in families return from name()
FamilyNames ==
    {"Cross-Origin-Embedder-Policy", "Cross-Origin-Opener-Policy",
     "Cross-Origin-Resource-Policy", "Origin-Agent-Cluster", "Referrer-Policy",
     "Strict-Transport-Security", "X-Content-Type-Options", "X-DNS-Prefetch-Control",
     "X-Download-Options", "X-Frame-Options", "X-Permitted-Cross-Domain-Policies",
     "X-XSS-Protection", "X-Powered-By", "Content-Security-Policy",
     "Content-Security-Policy-Report-Only"}

\* LowerCased, worked out once for the built-in names
LowerCasedFamilyNames == [n \in FamilyNames |-> LowerCased(n)]

ToLower(s) == IF s \in FamilyNames THEN LowerCasedFamilyNames[s] ELSE LowerCased(s)

\* the characters of a string, as a set
Chars(s) == {SubSeq(s, i, i) : i \in 1..Len(s)}

(***************************************************************************)
(* ntex::http::header                                                      *)
(* HeaderName::try_from(&str): every byte must be a token character, the   *)
(* name is stored lower-cased; the empty name is rejected.                 *)
(* HeaderValue::from_str: every byte must be >= 32 and not DEL, or a tab.  *)
(* Both return a Result, modelled as [ok |-> BOOLEAN, v |-> String].       *)
(***************************************************************************)
HeaderName_try_from(s) ==
    IF s # "" /\ \A c \in Chars(s) : IsTokenChar(c)
    THEN [ok |-> TRUE, v |-> ToLower(s)]
    ELSE [ok |-> FALSE, v |-> s]

IsValueChar(c) == c \notin ControlChars

HeaderValue_from_str(s) ==
    IF \A c \in Chars(s) : IsValueChar(c)
    THEN [ok |-> TRUE, v |-> s]
    ELSE [ok |-> FALSE, v |-> s]

(***************************************************************************)
(* HeaderMap: a multimap from (lower-cased) names to the values appended   *)
(* under that name, kept in append order per name.  It is a hash map: it   *)
(* holds no order between different names.                                 *)
(***************************************************************************)
HeaderMap_new == [n \in {} |-> <<>>]

HeaderMap_append(map, name, value) ==
    IF name \in DOMAIN map
    THEN [map EXCEPT ![name] = Append(@, value)]
    ELSE [n \in DOMAIN map \cup {name} |-> IF n = name THEN <<value>> ELSE map[n]]

\* HeaderMap::get(&str): the first value under the name, looked up
\* case-insensitively; None when the name is absent
HeaderMap_get(map, key) ==
    LET k == ToLower(key)
    IN  IF k \in DOMAIN map THEN Some(map[k][1]) ELSE None

\* HeaderMap::get_all(&str): every value under the name, in append order
HeaderMap_get_all(map, key) ==
    LET k == ToLower(key)
    IN  IF k \in DOMAIN map THEN map[k] ELSE <<>>

\* HeaderMap::len(): number of (name, value) lines
RECURSIVE SumLen(_, _)
SumLen(map, keys) ==
    IF keys = {} THEN 0
    ELSE LET k == CHOOSE x \in keys : TRUE
         IN  Len(map[k]) + SumLen(map, keys \ {k})
HeaderMap_len(map) == SumLen(map, DOMAIN map)

\* HeaderMap::iter(): the (name, value) lines, name by name in the order
\* `keys`, the values of one name together and in append order
RECURSIVE HeaderMap_iter(_, _)
HeaderMap_iter(map, keys) ==
    IF keys = <<>> THEN <<>>
    ELSE [i \in 1..Len(map[Head(keys)]) |-> <<Head(keys), map[Head(keys)][i]>>]
         \o HeaderMap_iter(map, Tail(keys))

(***************************************************************************)
(* The header families.  A spec is a record whose `family` field names its *)
(* Rust type; the other fields are that type's fields.                     *)
(***************************************************************************)
CrossOriginEmbedderPolicy_unsafe_none == [family |-> "CrossOriginEmbedderPolicy", variant |-> "UnsafeNone"]
CrossOriginEmbedderPolicy_require_corp == [family |-> "CrossOriginEmbedderPolicy", variant |-> "RequireCorp"]
CrossOriginEmbedderPolicy_credentialless == [family |-> "CrossOriginEmbedderPolicy", variant |-> "Credentialless"]

CrossOriginEmbedderPolicy_fmt(self) ==
    CASE self.variant = "UnsafeNone" -> "unsafe-none"
      [] self.variant = "RequireCorp" -> "require-corp"
      [] self.variant = "Credentialless" -> "credentialless"

CrossOriginOpenerPolicy_same_origin == [family |-> "CrossOriginOpenerPolicy", variant |-> "SameOrigin"]
CrossOriginOpenerPolicy_same_origin_allow_popups == [family |-> "CrossOriginOpenerPolicy", variant |-> "SameOriginAllowPopups"]
CrossOriginOpenerPolicy_unsafe_none == [family |-> "CrossOriginOpenerPolicy", variant |-> "UnsafeNone"]

\* Display writing the variants with the underscores of the constructor names
CrossOriginOpenerPolicy_fmt_underscored(self) ==
    CASE self.variant = "SameOrigin" -> "same_origin"
      [] self.variant = "SameOriginAllowPopups" -> "same_origin_allow_popups"
      [] self.variant = "UnsafeNone" -> "unsafe_none"

CrossOriginOpenerPolicy_fmt(self) ==
    CASE self.variant = "SameOrigin" -> "same-origin"
      [] self.variant = "SameOriginAllowPopups" -> "same-origin-allow-popups"
      [] self.variant = "UnsafeNone" -> "unsafe-none"

CrossOriginResourcePolicy_same_origin == [family |-> "CrossOriginResourcePolicy", variant |-> "SameOrigin"]
CrossOriginResourcePolicy_same_site == [family |-> "CrossOriginResourcePolicy", variant |-> "SameSite"]
CrossOriginResourcePolicy_cross_origin == [family |-> "CrossOriginResourcePolicy", variant |-> "CrossOrigin"]

CrossOriginResourcePolicy_fmt(self) ==
    CASE self.variant = "SameOrigin" -> "same-origin"
      [] self.variant = "SameSite" -> "same-site"
      [] self.variant = "CrossOrigin" -> "cross-origin"

OriginAgentCluster_new(prefer_mobile_experience) ==
    [family |-> "OriginAgentCluster", flag |-> prefer_mobile_experience]

OriginAgentCluster_fmt(self) == IF self.flag THEN "?1" ELSE "?0"

ReferrerPolicyVariants ==
    {"NoReferrer", "NoReferrerWhenDowngrade", "Origin", "OriginWhenCrossOrigin",
     "SameOrigin", "StrictOrigin", "StrictOriginWhenCrossOrigin", "UnsafeUrl"}

ReferrerPolicy_of(variant) == [family |-> "ReferrerPolicy", variant |-> variant]
ReferrerPolicy_no_referrer == ReferrerPolicy_of("NoReferrer")
ReferrerPolicy_origin_when_cross_origin == ReferrerPolicy_of("OriginWhenCrossOrigin")

ReferrerPolicy_fmt(self) ==
    CASE self.variant = "NoReferrer" -> "no-referrer"
      [] self.variant = "NoReferrerWhenDowngrade" -> "no-referrer-when-downgrade"
      [] self.variant = "Origin" -> "origin"
      [] self.variant = "OriginWhenCrossOrigin" -> "origin-when-cross-origin"
      [] self.variant = "SameOrigin" -> "same-origin"
      [] self.variant = "StrictOrigin" -> "strict-origin"
      [] self.variant = "StrictOriginWhenCrossOrigin" -> "strict-origin-when-cross-origin"
      [] self.variant = "UnsafeUrl" -> "unsafe-url"

\* StrictTransportSecurity::default (new() is default())
StrictTransportSecurity_default ==
    [family |-> "StrictTransportSecurity", max_age |-> 31536000,
     include_sub_domains |-> FALSE, preload |-> FALSE]
StrictTransportSecurity_new == StrictTransportSecurity_default
\* max_age() starting over from a header without flags
StrictTransportSecurity_max_age_reset(self, max_age) ==
    [self EXCEPT !.max_age = max_age, !.include_sub_domains = FALSE, !.preload = FALSE]

StrictTransportSecurity_max_age(self, max_age) == [self EXCEPT !.max_age = max_age]
StrictTransportSecurity_include_sub_domains(self) == [self EXCEPT !.include_sub_domains = TRUE]
StrictTransportSecurity_preload(self) == [self EXCEPT !.preload = TRUE]

\* Display writing preload before includeSubDomains
StrictTransportSecurity_fmt_swapped(self) ==
    "max-age=" \o ToString(self.max_age)
    \o (IF self.preload THEN "; preload" ELSE "")
    \o (IF self.include_sub_domains THEN "; includeSubDomains" ELSE "")

StrictTransportSecurity_fmt(self) ==
    "max-age=" \o ToString(self.max_age)
    \o (IF self.include_sub_domains THEN "; includeSubDomains" ELSE "")
    \o (IF self.preload THEN "; preload" ELSE "")

XContentTypeOptions_nosniff == [family |-> "XContentTypeOptions", variant |-> "NoSniff"]
XContentTypeOptions_fmt(self) == CASE self.variant = "NoSniff" -> "nosniff"

XDNSPrefetchControl_off == [family |-> "XDNSPrefetchControl", variant |-> "Off"]
XDNSPrefetchControl_on == [family |-> "XDNSPrefetchControl", variant |-> "On"]
XDNSPrefetchControl_fmt(self) ==
    CASE self.variant = "Off" -> "off"
      [] self.variant = "On" -> "on"

XDownloadOptions_noopen == [family |-> "XDownloadOptions", variant |-> "NoOpen"]
XDownloadOptions_fmt(self) == CASE self.variant = "NoOpen" -> "noopen"

XFrameOptions_deny == [family |-> "XFrameOptions", variant |-> "Deny", uri |-> ""]
XFrameOptions_same_origin == [family |-> "XFrameOptions", variant |-> "SameOrigin", uri |-> ""]
XFrameOptions_allow_from(uri) == [family |-> "XFrameOptions", variant |-> "AllowFrom", uri |-> uri]

\* XFrameOptions rendering the lower-case token of its doc comment
XFrameOptions_fmt_lower(self) ==
    CASE self.variant = "Deny" -> "deny"
      [] self.variant = "SameOrigin" -> "sameorigin"
      [] self.variant = "AllowFrom" -> "allow-from " \o self.uri

XFrameOptions_fmt(self) ==
    CASE self.variant = "Deny" -> "DENY"
      [] self.variant = "SameOrigin" -> "SAMEORIGIN"
      [] self.variant = "AllowFrom" -> "ALLOW-FROM " \o self.uri

XPermittedCrossDomainPoliciesVariants ==
    {"None", "MasterOnly", "ByContentType", "ByFtpFilename", "All"}
XPermittedCrossDomainPolicies_of(variant) ==
    [family |-> "XPermittedCrossDomainPolicies", variant |-> variant]
XPermittedCrossDomainPolicies_none == XPermittedCrossDomainPolicies_of("None")

XPermittedCrossDomainPolicies_fmt(self) ==
    CASE self.variant = "None" -> "none"
      [] self.variant = "MasterOnly" -> "master-only"
      [] self.variant = "ByContentType" -> "by-content-type"
      [] self.variant = "ByFtpFilename" -> "by-ftp-filename"
      [] self.variant = "All" -> "all"

XXSSProtection_off ==
    [family |-> "XXSSProtection", on |-> FALSE, mode_block |-> FALSE, report |-> None]
XXSSProtection_on ==
    [family |-> "XXSSProtection", on |-> TRUE, mode_block |-> FALSE, report |-> None]
\* mode_block() switching the protection on as well
XXSSProtection_mode_block_on(self) == [self EXCEPT !.mode_block = TRUE, !.on = TRUE]

XXSSProtection_mode_block(self) == [self EXCEPT !.mode_block = TRUE]
XXSSProtection_report(self, report) == [self EXCEPT !.report = Some(report)]

\* Display writing the report clause only inside mode_block
XXSSProtection_fmt_nested(self) ==
    IF self.on
    THEN "1" \o (IF self.mode_block
                 THEN "; mode=block"
                      \o (IF self.report # None THEN "; report=" \o self.report[1] ELSE "")
                 ELSE "")
    ELSE "0"

XXSSProtection_fmt(self) ==
    IF self.on
    THEN "1" \o (IF self.mode_block THEN "; mode=block" ELSE "")
             \o (IF self.report # None THEN "; report=" \o self.report[1] ELSE "")
    ELSE "0"

XPoweredBy_new(comment) == [family |-> "XPoweredBy", comment |-> comment]
XPoweredBy_fmt(self) == self.comment

(***************************************************************************)
(* Content-Security-Policy                                                 *)
(***************************************************************************)
\* the keyword each value-carrying ContentSecurityPolicyDirective renders
DirectiveKeyword(kind) ==
    CASE kind = "ChildSrc" -> "child-src"
      [] kind = "ConnectSrc" -> "connect-src"
      [] kind = "DefaultSrc" -> "default-src"
      [] kind = "FontSrc" -> "font-src"
      [] kind = "FrameSrc" -> "frame-src"
      [] kind = "ImgSrc" -> "img-src"
      [] kind = "ManifestSrc" -> "manifest-src"
      [] kind = "MediaSrc" -> "media-src"
      [] kind = "ObjectSrc" -> "object-src"
      [] kind = "PrefetchSrc" -> "prefetch-src"
      [] kind = "ScriptSrc" -> "script-src"
      [] kind = "ScriptSrcElem" -> "script-src-elem"
      [] kind = "ScriptSrcAttr" -> "script-src-attr"
      [] kind = "StyleSrc" -> "style-src"
      [] kind = "StyleSrcElem" -> "style-src-elem"
      [] kind = "StyleSrcAttr" -> "style-src-attr"
      [] kind = "WorkerSrc" -> "worker-src"
      [] kind = "BaseUri" -> "base-uri"
      [] kind = "Sandbox" -> "sandbox"
      [] kind = "FormAction" -> "form-action"
      [] kind = "FrameAncestors" -> "frame-ancestors"
      [] kind = "ReportTo" -> "report-to"
      [] kind = "RequireTrustedTypesFor" -> "require-trusted-types-for"
      [] kind = "TrustedTypes" -> "trusted-types"

\* a directive keeping each value once
RECURSIVE Dedup(_)
Dedup(values) ==
    IF values = <<>> THEN <<>>
    ELSE LET front == Dedup(SubSeq(values, 1, Len(values) - 1))
             last == values[Len(values)]
         IN  IF \E i \in DOMAIN front : front[i] = last THEN front ELSE Append(front, last)

ContentSecurityPolicyDirective_of_deduped(kind, values) ==
    [kind |-> kind, values |-> Dedup(values)]

\* a directive: its enum variant and its Vec<&str>
ContentSecurityPolicyDirective_of(kind, values) == [kind |-> kind, values |-> values]
ContentSecurityPolicyDirective_upgrade_insecure_requests ==
    [kind |-> "UpgradeInsecureRequests", values |-> <<>>]

\* Display treating ReportTo like every other directive: no report-uri clause
ContentSecurityPolicyDirective_fmt_plain(self) ==
    CASE self.kind = "UpgradeInsecureRequests" -> "upgrade-insecure-requests"
      [] OTHER -> DirectiveKeyword(self.kind) \o " " \o Join(self.values, " ")

ContentSecurityPolicyDirective_fmt(self) ==
    CASE self.kind = "UpgradeInsecureRequests" -> "upgrade-insecure-requests"
      [] self.kind = "ReportTo" ->
            LET values == Join(self.values, " ")
            IN  "report-to " \o values \o "; report-uri " \o values
      [] OTHER -> DirectiveKeyword(self.kind) \o " " \o Join(self.values, " ")

\* new() starting from a preset directive instead of an empty Vec
ContentSecurityPolicy_new_preset ==
    [family |-> "ContentSecurityPolicy",
     directives |-> <<ContentSecurityPolicyDirective_of("DefaultSrc", <<"'self'">>)>>,
     report_only |-> FALSE]

ContentSecurityPolicy_new ==
    [family |-> "ContentSecurityPolicy", directives |-> <<>>, report_only |-> FALSE]

\* directive() keeping one directive per kind: a later one takes the place of
\* an earlier one of its kind
ContentSecurityPolicy_directive_replace(self, directive) ==
    IF \E i \in DOMAIN self.directives : self.directives[i].kind = directive.kind
    THEN [self EXCEPT !.directives =
            [i \in DOMAIN @ |-> IF @[i].kind = directive.kind THEN directive ELSE @[i]]]
    ELSE [self EXCEPT !.directives = Append(@, directive)]

ContentSecurityPolicy_directive(self, directive) ==
    [self EXCEPT !.directives = Append(@, directive)]

\* a builder method leaving out a directive that has no value
ContentSecurityPolicy_with_skip_empty(self, kind, values) ==
    IF values = <<>> THEN self
    ELSE ContentSecurityPolicy_directive(self, ContentSecurityPolicyDirective_of(kind, values))

\* the builder methods child_src .. trusted_types: each pushes its directive
ContentSecurityPolicy_with(self, kind, values) ==
    ContentSecurityPolicy_directive(self, ContentSecurityPolicyDirective_of(kind, values))

ContentSecurityPolicy_upgrade_insecure_requests(self) ==
    ContentSecurityPolicy_directive(self, ContentSecurityPolicyDirective_upgrade_insecure_requests)

\* report_only() flipping the flag instead of setting it
ContentSecurityPolicy_report_only_toggle(self) == [self EXCEPT !.report_only = ~@]

ContentSecurityPolicy_report_only(self) == [self EXCEPT !.report_only = TRUE]

RECURSIVE MapDirectives(_)
MapDirectives(directives) ==
    IF directives = <<>> THEN <<>>
    ELSE <<ContentSecurityPolicyDirective_fmt(Head(directives))>> \o MapDirectives(Tail(directives))

ContentSecurityPolicy_fmt(self) == Join(MapDirectives(self.directives), "; ")

\* default() without its last call, upgrade_insecure_requests()
ContentSecurityPolicy_default_short ==
    ContentSecurityPolicy_with(
    ContentSecurityPolicy_with(
    ContentSecurityPolicy_with(
    ContentSecurityPolicy_with(
    ContentSecurityPolicy_with(
    ContentSecurityPolicy_with(
    ContentSecurityPolicy_with(
    ContentSecurityPolicy_with(
    ContentSecurityPolicy_with(
    ContentSecurityPolicy_with(ContentSecurityPolicy_new,
        "DefaultSrc", <<"'self'">>),
        "BaseUri", <<"'self'">>),
        "FontSrc", <<"'self'", "https:", "data:">>),
        "FormAction", <<"'self'">>),
        "FrameAncestors", <<"'self'">>),
        "ImgSrc", <<"'self'", "data:">>),
        "ObjectSrc", <<"'none'">>),
        "ScriptSrc", <<"'self'">>),
        "ScriptSrcAttr", <<"'none'">>),
        "StyleSrc", <<"'self'", "https:", "'unsafe-inline'">>)

ContentSecurityPolicy_default ==
    ContentSecurityPolicy_upgrade_insecure_requests(
    ContentSecurityPolicy_with(
    ContentSecurityPolicy_with(
    ContentSecurityPolicy_with(
    ContentSecurityPolicy_with(
    ContentSecurityPolicy_with(
    ContentSecurityPolicy_with(
    ContentSecurityPolicy_with(
    ContentSecurityPolicy_with(
    ContentSecurityPolicy_with(
    ContentSecurityPolicy_with(ContentSecurityPolicy_new,
        "DefaultSrc", <<"'self'">>),
        "BaseUri", <<"'self'">>),
        "FontSrc", <<"'self'", "https:", "data:">>),
        "FormAction", <<"'self'">>),
        "FrameAncestors", <<"'self'">>),
        "ImgSrc", <<"'self'", "data:">>),
        "ObjectSrc", <<"'none'">>),
        "ScriptSrc", <<"'self'">>),
        "ScriptSrcAttr", <<"'none'">>),
        "StyleSrc", <<"'self'", "https:", "'unsafe-inline'">>))

\* name() ignoring report_only
ContentSecurityPolicy_name_plain(self) == "Content-Security-Policy"

ContentSecurityPolicy_name(self) ==
    IF self.report_only
    THEN "Content-Security-Policy-Report-Only"
    ELSE "Content-Security-Policy"

(***************************************************************************)
(* trait Header.  Besides the built-in families, any user type may         *)
(* implement it: family "Custom" is such a type, with the strings its      *)
(* name() and value() return.                                              *)
(***************************************************************************)
CustomHeader(name, value) == [family |-> "Custom", name |-> name, value |-> value]
\* a user type whose value() reads a cell it shares with the application
\* (interior mutability behind &self): it renders the cell's current content
Versioned_new == [family |-> "Versioned", epoch |-> 0]
Versioned_store(self, epoch) == [self EXCEPT !.epoch = epoch]

Header_name(self) ==
    CASE self.family = "CrossOriginEmbedderPolicy" -> "Cross-Origin-Embedder-Policy"
      [] self.family = "CrossOriginOpenerPolicy" -> "Cross-Origin-Opener-Policy"
      [] self.family = "CrossOriginResourcePolicy" -> "Cross-Origin-Resource-Policy"
      [] self.family = "OriginAgentCluster" -> "Origin-Agent-Cluster"
      [] self.family = "ReferrerPolicy" -> "Referrer-Policy"
      [] self.family = "StrictTransportSecurity" -> "Strict-Transport-Security"
      [] self.family = "XContentTypeOptions" -> "X-Content-Type-Options"
      [] self.family = "XDNSPrefetchControl" -> "X-DNS-Prefetch-Control"
      [] self.family = "XDownloadOptions" -> "X-Download-Options"
      [] self.family = "XFrameOptions" -> "X-Frame-Options"
      [] self.family = "XPermittedCrossDomainPolicies" -> "X-Permitted-Cross-Domain-Policies"
      [] self.family = "XXSSProtection" -> "X-XSS-Protection"
      [] self.family = "XPoweredBy" -> "X-Powered-By"
      [] self.family = "ContentSecurityPolicy" -> ContentSecurityPolicy_name(self)
      [] self.family = "Custom" -> self.name
      [] self.family = "Versioned" -> "X-Config-Version"

Header_value(self) ==
    CASE self.family = "CrossOriginEmbedderPolicy" -> CrossOriginEmbedderPolicy_fmt(self)
      [] self.family = "CrossOriginOpenerPolicy" -> CrossOriginOpenerPolicy_fmt(self)
      [] self.family = "CrossOriginResourcePolicy" -> CrossOriginResourcePolicy_fmt(self)
      [] self.family = "OriginAgentCluster" -> OriginAgentCluster_fmt(self)
      [] self.family = "ReferrerPolicy" -> ReferrerPolicy_fmt(self)
      [] self.family = "StrictTransportSecurity" -> StrictTransportSecurity_fmt(self)
      [] self.family = "XContentTypeOptions" -> XContentTypeOptions_fmt(self)
      [] self.family = "XDNSPrefetchControl" -> XDNSPrefetchControl_fmt(self)
      [] self.family = "XDownloadOptions" -> XDownloadOptions_fmt(self)
      [] self.family = "XFrameOptions" -> XFrameOptions_fmt(self)
      [] self.family = "XPermittedCrossDomainPolicies" -> XPermittedCrossDomainPolicies_fmt(self)
      [] self.family = "XXSSProtection" -> XXSSProtection_fmt(self)
      [] self.family = "XPoweredBy" -> XPoweredBy_fmt(self)
      [] self.family = "ContentSecurityPolicy" -> ContentSecurityPolicy_fmt(self)
      [] self.family = "Custom" -> self.value
      [] self.family = "Versioned" -> "v" \o ToString(self.epoch)

(***************************************************************************)
(* Helmet: the policy set, a Vec<Box<dyn Header>>.                         *)
(***************************************************************************)
\* new starting from a set that already holds a spec
Helmet_new_poweredby == [headers |-> <<XPoweredBy_new("ntex")>>]

\* Helmet::new(): Self { headers: Vec::new() }
Helmet_new == [headers |-> <<>>]

\* add replacing an earlier spec of the same family instead of pushing
Helmet_add_dedup(self, header) ==
    IF \E i \in DOMAIN self.headers : self.headers[i].family = header.family
    THEN [self EXCEPT !.headers =
            [i \in DOMAIN @ |-> IF @[i].family = header.family THEN header ELSE @[i]]]
    ELSE [self EXCEPT !.headers = Append(@, header)]

Helmet_add(self, header) == [self EXCEPT !.headers = Append(@, header)]

Helmet_default ==
    Helmet_add(Helmet_add(Helmet_add(Helmet_add(Helmet_add(Helmet_add(
    Helmet_add(Helmet_add(Helmet_add(Helmet_add(Helmet_add(Helmet_add(
        Helmet_new,
        ContentSecurityPolicy_default),
        CrossOriginOpenerPolicy_same_origin),
        CrossOriginResourcePolicy_same_origin),
        OriginAgentCluster_new(TRUE)),
        ReferrerPolicy_no_referrer),
        StrictTransportSecurity_include_sub_domains(
            StrictTransportSecurity_max_age(StrictTransportSecurity_new, 15552000))),
        XContentTypeOptions_nosniff),
        XDNSPrefetchControl_off),
        XDownloadOptions_noopen),
        XFrameOptions_same_origin),
        XPermittedCrossDomainPolicies_none),
        XXSSProtection_off)

(***************************************************************************)
(* Middleware::create: renders every spec once, in Vec order, into the     *)
(* middleware's HeaderMap.  Each expect() panics on the first name or      *)
(* value that is not a valid header field component.                       *)
(***************************************************************************)
NoMiddleware == [state |-> "none", headers |-> HeaderMap_new, panic |-> ""]
Panicked(msg) == [state |-> "panicked", headers |-> HeaderMap_new, panic |-> msg]

RECURSIVE CreateLoop(_, _)
CreateLoop(specs, headers) ==
    IF specs = <<>>
    THEN [state |-> "created", headers |-> headers, panic |-> ""]
    ELSE LET header == Head(specs)
             name == HeaderName_try_from(Header_name(header))
             value == HeaderValue_from_str(Header_value(header))
         IN  IF ~name.ok THEN Panicked("invalid header name")
             ELSE IF ~value.ok THEN Panicked("invalid header value")
             ELSE CreateLoop(Tail(specs), HeaderMap_append(headers, name.v, value.v))

\* create leaving out the specs that do not render a valid name and value,
\* instead of panicking
Middleware_create_skip(self) ==
    CreateLoop(SelectSeq(self.headers,
                   LAMBDA h : /\ HeaderName_try_from(Header_name(h)).ok
                              /\ HeaderValue_from_str(Header_value(h)).ok),
               HeaderMap_new)

\* create storing the rendered strings as they are, unvalidated
RECURSIVE CreateLoopUnchecked(_, _)
CreateLoopUnchecked(specs, headers) ==
    IF specs = <<>>
    THEN [state |-> "created", headers |-> headers, panic |-> ""]
    ELSE CreateLoopUnchecked(Tail(specs),
             HeaderMap_append(headers, ToLower(Header_name(Head(specs))),
                              Header_value(Head(specs))))

Middleware_create_unchecked(self) == CreateLoopUnchecked(self.headers, HeaderMap_new)

\* create walking the Vec from its end: .iter().rev()
Middleware_create_rev(self) == CreateLoop(Reverse(self.headers), HeaderMap_new)

Middleware_create(self) == CreateLoop(self.headers, HeaderMap_new)

(***************************************************************************)
(* WebResponse and the Result the wrapped service resolves to.             *)
(***************************************************************************)
WebResponse(status, body, headers) == [status |-> status, body |-> body, headers |-> headers]
NoResponse == WebResponse(0, "", HeaderMap_new)
Ok(res) == [ok |-> TRUE, res |-> res, err |-> ""]
Err(e) == [ok |-> FALSE, res |-> NoResponse, err |-> e]

\* an enumeration of a set of names
RECURSIVE KeySeq(_)
KeySeq(S) ==
    IF S = {} THEN <<>>
    ELSE LET k == CHOOSE x \in S : TRUE IN <<k>> \o KeySeq(S \ {k})

\* orders in which iter() may visit the names of a map (the hash order is
\* not the append order); an enumeration and its reverse stand for them
IterOrders(map) == {KeySeq(DOMAIN map), Reverse(KeySeq(DOMAIN map))}

\* the loop left after its first pass
AppendLoop_partial(headers, lines) ==
    IF lines = <<>> THEN headers
    ELSE HeaderMap_append(headers, Head(lines)[1], Head(lines)[2])

\* for (name, value) in lines { headers.append(name.clone(), value.clone()) }
RECURSIVE AppendLoop(_, _)
AppendLoop(headers, lines) ==
    IF lines = <<>> THEN headers
    ELSE AppendLoop(HeaderMap_append(headers, Head(lines)[1], Head(lines)[2]), Tail(lines))

(***************************************************************************)
(* HelmetMiddleware::call, from the point where the wrapped service's      *)
(* future has resolved to `result`: `?` returns its error as it is;        *)
(* otherwise every stored line is appended to the response.  `keys` is the *)
(* order in which self.headers.iter() visits the names.  The request has   *)
(* been moved into the wrapped service; self is borrowed immutably.        *)
(* Yields the middleware after the call and the Result returned.           *)
(***************************************************************************)
\* HeaderMap::insert: replaces whatever the name held
HeaderMap_insert(map, name, value) ==
    [n \in DOMAIN map \cup {name} |-> IF n = name THEN <<value>> ELSE map[n]]

RECURSIVE InsertLoop(_, _)
InsertLoop(headers, lines) ==
    IF lines = <<>> THEN headers
    ELSE InsertLoop(HeaderMap_insert(headers, Head(lines)[1], Head(lines)[2]), Tail(lines))

\* call setting the headers with insert instead of append
HelmetMiddleware_call_insert(self, req, result, keys) ==
    IF ~result.ok
    THEN [self |-> self, ret |-> Err(result.err)]
    ELSE [self |-> self,
          ret |-> Ok([result.res EXCEPT
                        !.headers = InsertLoop(@, HeaderMap_iter(self.headers, keys))])]

\* call answering a failed handler with a fresh response carrying the headers
HelmetMiddleware_call_recover(self, req, result, keys) ==
    [self |-> self,
     ret |-> Ok([(IF result.ok THEN result.res ELSE WebResponse(500, "", HeaderMap_new)) EXCEPT
                   !.headers = AppendLoop(@, HeaderMap_iter(self.headers, keys))])]

\* call reflecting the request's Origin into the response
HelmetMiddleware_call_origin(self, req, result, keys) ==
    IF ~result.ok
    THEN [self |-> self, ret |-> Err(result.err)]
    ELSE [self |-> self,
          ret |-> Ok([result.res EXCEPT
                        !.headers =
                            LET injected == AppendLoop(@, HeaderMap_iter(self.headers, keys))
                            IN  IF req.origin = "" THEN injected
                                ELSE HeaderMap_append(injected,
                                         "access-control-allow-origin", req.origin)])]

\* call moving the stored lines into the response (drain instead of iter)
HelmetMiddleware_call_drain(self, req, result, keys) ==
    IF ~result.ok
    THEN [self |-> self, ret |-> Err(result.err)]
    ELSE [self |-> [self EXCEPT !.headers = HeaderMap_new],
          ret |-> Ok([result.res EXCEPT
                        !.headers = AppendLoop(@, HeaderMap_iter(self.headers, keys))])]

\* call putting each stored value ahead of the values the response holds
\* under the name
HeaderMap_prepend(map, name, value) ==
    IF name \in DOMAIN map
    THEN [map EXCEPT ![name] = <<value>> \o @]
    ELSE [n \in DOMAIN map \cup {name} |-> IF n = name THEN <<value>> ELSE map[n]]

RECURSIVE PrependLoop(_, _)
PrependLoop(headers, lines) ==
    IF lines = <<>> THEN headers
    ELSE PrependLoop(HeaderMap_prepend(headers, Head(lines)[1], Head(lines)[2]), Tail(lines))

HelmetMiddleware_call_prepend(self, req, result, keys) ==
    IF ~result.ok
    THEN [self |-> self, ret |-> Err(result.err)]
    ELSE [self |-> self,
          ret |-> Ok([result.res EXCEPT
                        !.headers = PrependLoop(@, HeaderMap_iter(self.headers, keys))])]

HelmetMiddleware_call(self, req, result, keys) ==
    IF ~result.ok
    THEN [self |-> self, ret |-> Err(result.err)]
    ELSE [self |-> self,
          ret |-> Ok([result.res EXCEPT
                        !.headers = AppendLoop(@, HeaderMap_iter(self.headers, keys))])]

(***************************************************************************)
(* The environment: the specs the application adds, the requests it        *)
(* receives and what the wrapped handler answers.                          *)
(***************************************************************************)
SpecInputs ==
    {XFrameOptions_deny,
     XFrameOptions_allow_from("https://a\nb"),
     XPoweredBy_new("ntex"),
     CrossOriginEmbedderPolicy_require_corp,
     CustomHeader("My Header", "my-value")}

WebRequest(method, path, origin) == [method |-> method, path |-> path, origin |-> origin]
NoRequest == WebRequest("", "", "")
Requests ==
    {WebRequest("GET", "/", ""),
     WebRequest("POST", "/x", "https://evil.example")}

\* ok_service(): 200 with no headers of its own
PassthroughResponse == WebResponse(200, "", HeaderMap_new)
\* a handler that sets headers itself, one of them under a name Helmet injects
OwnHeadersResponse ==
    WebResponse(200, "Hello world!",
        HeaderMap_append(HeaderMap_append(HeaderMap_new,
            "content-type", "text/plain"), "x-frame-options", "DENY"))
HandlerResponses == {PassthroughResponse, OwnHeadersResponse}
HandlerErrors == {"handler error"}

\* a constructor or builder method call: the function and its arguments
Call(fn, args) == [fn |-> fn, args |-> args]
\* no header is under construction
NoCall == Call("", <<>>)
NoHeader == [family |-> ""]

(***************************************************************************)
(* State                                                                   *)
(***************************************************************************)
VARIABLES
    helmet,       \* the Helmet being built
    constructed,  \* the Helmet as its constructor (new or default) returned it
    added,        \* the arguments of the Helmet::add calls made, in call order
    mw,           \* the HelmetMiddleware made by create (or create's panic)
    reqs,         \* per request: position in call, the request, what the
                  \* wrapped service resolved to, what call returned, and how
                  \* often the wrapped service was invoked
    ctor,         \* the constructor call that made the header being built
    builder,      \* the header being built: the value the builder chain holds
    calls,        \* the builder methods called on it, in call order
    rendered      \* what name() and value() returned for it, each time asked

vars == <<helmet, constructed, added, mw, reqs, ctor, builder, calls, rendered>>

\* the variables of the Helmet, its middleware and the requests
helmetVars == <<helmet, constructed, added, mw, reqs>>
\* the variables of a header's builder chain
builderVars == <<ctor, builder, calls, rendered>>

RequestIds == 1..NumRequests

IdleRequest ==
    [pc |-> "idle", req |-> NoRequest, inner |-> Err(""), out |-> Err(""), invoked |-> 0]

\* let helmet = Helmet::new()  or  Helmet::default()
Init ==
    /\ helmet \in {Helmet_new, Helmet_default}
    /\ constructed = helmet
    /\ added = <<>>
    /\ mw = NoMiddleware
    /\ reqs = [r \in RequestIds |-> IdleRequest]
    /\ ctor = NoCall
    /\ builder = NoHeader
    /\ calls = <<>>
    /\ rendered = None

\* helmet = helmet.add(header); add takes the Helmet by value, and wrapping
\* a service moves the Helmet into the application: no add follows create
Add(header) ==
    /\ mw.state = "none"
    /\ Len(added) < MaxAdds
    /\ helmet' = Helmet_add(helmet, header)
    /\ added' = Append(added, header)
    /\ UNCHANGED <<constructed, mw, reqs, builderVars>>

\* helmet.create(service)
Create ==
    /\ mw.state = "none"
    /\ mw' = Middleware_create(helmet)
    /\ UNCHANGED <<helmet, constructed, added, reqs, builderVars>>

\* call appending its lines to a response of its own before the wrapped
\* service has answered
CallStart_eager(r, req) ==
    /\ mw.state = "created"
    /\ reqs[r].pc = "idle"
    /\ \E keys \in IterOrders(mw.headers) :
          reqs' = [reqs EXCEPT ![r] =
                     [@ EXCEPT !.pc = "awaiting", !.req = req, !.invoked = @ + 1,
                               !.out = Ok(WebResponse(200, "",
                                          AppendLoop(HeaderMap_new,
                                                     HeaderMap_iter(mw.headers, keys))))]]
    /\ UNCHANGED <<helmet, constructed, added, mw, builderVars>>

\* call(req, ctx) up to the await: ctx.call(&self.service, req)
CallStart(r, req) ==
    /\ mw.state = "created"
    /\ reqs[r].pc = "idle"
    /\ reqs' = [reqs EXCEPT ![r] = [@ EXCEPT !.pc = "awaiting", !.req = req,
                                              !.invoked = @ + 1]]
    /\ UNCHANGED <<helmet, constructed, added, mw, builderVars>>

\* call rendering the specs of the Helmet again when the response is there
Resume_rerender(r, result) ==
    LET fresh == Middleware_create(helmet)
    IN  \E keys \in IterOrders(fresh.headers) :
            /\ mw' = mw
            /\ reqs' = [reqs EXCEPT ![r] =
                          [@ EXCEPT !.pc = "done", !.inner = result,
                                    !.out = HelmetMiddleware_call(fresh, reqs[r].req,
                                                                  result, keys).ret]]

\* the wrapped service's future resolves to `result`; call runs to its end
Resume(r, result) ==
    \E keys \in IterOrders(mw.headers) :
        LET after == HelmetMiddleware_call(mw, reqs[r].req, result, keys)
        IN  /\ mw' = after.self
            /\ reqs' = [reqs EXCEPT ![r] = [@ EXCEPT !.pc = "done", !.inner = result,
                                                     !.out = after.ret]]

\* the wrapped service answers with a response
HandlerOk(r, res) ==
    /\ reqs[r].pc = "awaiting"
    /\ Resume(r, Ok(res))
    /\ UNCHANGED <<helmet, constructed, added, builderVars>>

\* the wrapped service fails
HandlerErr(r, e) ==
    /\ reqs[r].pc = "awaiting"
    /\ Resume(r, Err(e))
    /\ UNCHANGED <<helmet, constructed, added, builderVars>>

Next ==
    \/ \E header \in SpecInputs : Add(header)
    \/ Create
    \/ \E r \in RequestIds, req \in Requests : CallStart(r, req)
    \/ \E r \in RequestIds, res \in HandlerResponses : HandlerOk(r, res)
    \/ \E r \in RequestIds, e \in HandlerErrors : HandlerErr(r, e)

Spec == Init /\ [][Next]_vars

(***************************************************************************)
(* A Helmet that holds headers of a user type with interior mutability:    *)
(* the application keeps the cell of each and stores into it at any time,  *)
(* before and after create, between and during requests.                   *)
(***************************************************************************)
VersionedInputs == {Versioned_new, XFrameOptions_deny}

\* the application stores the next epoch into the cell of the i-th header
Store(i) ==
    /\ i \in DOMAIN helmet.headers
    /\ helmet.headers[i].family = "Versioned"
    /\ helmet.headers[i].epoch < MaxEpoch
    /\ helmet' = [helmet EXCEPT !.headers[i] = Versioned_store(@, @.epoch + 1)]
    /\ added' = [added EXCEPT ![i - Len(constructed.headers)] =
                    Versioned_store(@, @.epoch + 1)]
    /\ UNCHANGED <<constructed, mw, reqs, builderVars>>

VersionedInit == Init /\ helmet = Helmet_new

VersionedNext ==
    \/ \E header \in VersionedInputs : Add(header)
    \/ \E i \in 1..MaxAdds : Store(i)
    \/ Create
    \/ \E r \in RequestIds : CallStart(r, WebRequest("GET", "/", ""))
    \/ \E r \in RequestIds, res \in HandlerResponses : HandlerOk(r, res)
    \/ \E r \in RequestIds, e \in HandlerErrors : HandlerErr(r, e)

VersionedSpec == VersionedInit /\ [][VersionedNext]_vars

(***************************************************************************)
(* The builder chains.  A header is made by a constructor, changed by the  *)
(* builder methods of its type (each takes self by value and returns it),  *)
(* and then either asked for its name() and value(), or added to a         *)
(* Helmet::new() that is wrapped around ok_service() and called once, as   *)
(* the tests of the crate do.                                              *)
(***************************************************************************)
\* the ContentSecurityPolicy builder methods that take a Vec<&str>, and the
\* ContentSecurityPolicyDirective variant each one pushes
MethodVariant(fn) ==
    CASE fn = "child_src" -> "ChildSrc"
      [] fn = "connect_src" -> "ConnectSrc"
      [] fn = "default_src" -> "DefaultSrc"
      [] fn = "font_src" -> "FontSrc"
      [] fn = "frame_src" -> "FrameSrc"
      [] fn = "img_src" -> "ImgSrc"
      [] fn = "manifest_src" -> "ManifestSrc"
      [] fn = "media_src" -> "MediaSrc"
      [] fn = "object_src" -> "ObjectSrc"
      [] fn = "prefetch_src" -> "PrefetchSrc"
      [] fn = "script_src" -> "ScriptSrc"
      [] fn = "script_src_elem" -> "ScriptSrcElem"
      [] fn = "script_src_attr" -> "ScriptSrcAttr"
      [] fn = "style_src" -> "StyleSrc"
      [] fn = "style_src_elem" -> "StyleSrcElem"
      [] fn = "style_src_attr" -> "StyleSrcAttr"
      [] fn = "worker_src" -> "WorkerSrc"
      [] fn = "base_uri" -> "BaseUri"
      [] fn = "sandbox" -> "Sandbox"
      [] fn = "form_action" -> "FormAction"
      [] fn = "frame_ancestors" -> "FrameAncestors"
      [] fn = "report_to" -> "ReportTo"
      [] fn = "require_trusted_types_for" -> "RequireTrustedTypesFor"
      [] fn = "trusted_types" -> "TrustedTypes"

DirectiveMethods ==
    {"child_src", "connect_src", "default_src", "font_src", "frame_src", "img_src",
     "manifest_src", "media_src", "object_src", "prefetch_src", "script_src",
     "script_src_elem", "script_src_attr", "style_src", "style_src_elem",
     "style_src_attr", "worker_src", "base_uri", "sandbox", "form_action",
     "frame_ancestors", "report_to", "require_trusted_types_for", "trusted_types"}

\* the inputs of the builder chains
ValueLists == {<<>>, <<"'self'">>, <<"'self'", "https://youtube.com">>}
\* the directives that follow the first
NextDirectiveInputs ==
    {Call("child_src", << <<"'self'", "https://youtube.com">> >>),
     Call("connect_src", << <<"'self'">> >>),
     Call("report_to", << <<"a", "b">> >>)}
\* value lists with a value given twice, and with values that hold the
\* separators of the policy string
VerbatimInputs ==
    {Call("script_src", << <<"'self'", "'self'">> >>),
     Call("img_src", << <<"a; script-src *", "b c", "a; script-src *">> >>)}
\* the first directive of a policy: every method with every value list
FirstDirectiveInputs ==
    {Call(fn, <<values>>) : fn \in DirectiveMethods, values \in ValueLists}
    \cup NextDirectiveInputs \cup VerbatimInputs
DirectiveInputs(self) ==
    IF self.directives = <<>> THEN FirstDirectiveInputs ELSE NextDirectiveInputs
\* u32 values for max_age (the largest is the largest integer TLC holds)
MaxAgeInputs == {0, 15552000, 2147483647}
\* &str values for XXSSProtection::report and XFrameOptions::allow_from
UriInputs == {"https://example.com", " HTTPS://Example.COM/a b "}

\* the constructors of the enum families: <<constructor, family, variant>>
EnumConstructors ==
    {<<"CrossOriginEmbedderPolicy::unsafe_none", "CrossOriginEmbedderPolicy", "UnsafeNone">>,
     <<"CrossOriginEmbedderPolicy::require_corp", "CrossOriginEmbedderPolicy", "RequireCorp">>,
     <<"CrossOriginEmbedderPolicy::credentialless", "CrossOriginEmbedderPolicy", "Credentialless">>,
     <<"CrossOriginOpenerPolicy::same_origin", "CrossOriginOpenerPolicy", "SameOrigin">>,
     <<"CrossOriginOpenerPolicy::same_origin_allow_popups", "CrossOriginOpenerPolicy", "SameOriginAllowPopups">>,
     <<"CrossOriginOpenerPolicy::unsafe_none", "CrossOriginOpenerPolicy", "UnsafeNone">>,
     <<"CrossOriginResourcePolicy::same_origin", "CrossOriginResourcePolicy", "SameOrigin">>,
     <<"CrossOriginResourcePolicy::same_site", "CrossOriginResourcePolicy", "SameSite">>,
     <<"CrossOriginResourcePolicy::cross_origin", "CrossOriginResourcePolicy", "CrossOrigin">>,
     <<"ReferrerPolicy::no_referrer", "ReferrerPolicy", "NoReferrer">>,
     <<"ReferrerPolicy::no_referrer_when_downgrade", "ReferrerPolicy", "NoReferrerWhenDowngrade">>,
     <<"ReferrerPolicy::origin", "ReferrerPolicy", "Origin">>,
     <<"ReferrerPolicy::origin_when_cross_origin", "ReferrerPolicy", "OriginWhenCrossOrigin">>,
     <<"ReferrerPolicy::same_origin", "ReferrerPolicy", "SameOrigin">>,
     <<"ReferrerPolicy::strict_origin", "ReferrerPolicy", "StrictOrigin">>,
     <<"ReferrerPolicy::strict_origin_when_cross_origin", "ReferrerPolicy", "StrictOriginWhenCrossOrigin">>,
     <<"ReferrerPolicy::unsafe_url", "ReferrerPolicy", "UnsafeUrl">>,
     <<"XContentTypeOptions::nosniff", "XContentTypeOptions", "NoSniff">>,
     <<"XDNSPrefetchControl::off", "XDNSPrefetchControl", "Off">>,
     <<"XDNSPrefetchControl::on", "XDNSPrefetchControl", "On">>,
     <<"XDownloadOptions::noopen", "XDownloadOptions", "NoOpen">>,
     <<"XPermittedCrossDomainPolicies::none", "XPermittedCrossDomainPolicies", "None">>,
     <<"XPermittedCrossDomainPolicies::master_only", "XPermittedCrossDomainPolicies", "MasterOnly">>,
     <<"XPermittedCrossDomainPolicies::by_content_type", "XPermittedCrossDomainPolicies", "ByContentType">>,
     <<"XPermittedCrossDomainPolicies::by_ftp_filename", "XPermittedCrossDomainPolicies", "ByFtpFilename">>,
     <<"XPermittedCrossDomainPolicies::all", "XPermittedCrossDomainPolicies", "All">>}

\* &str values for XPoweredBy::new
CommentInputs == {"ntex", "PHP/8.2 (Ubuntu)"}

Constructors ==
    {Call(e[1], <<>>) : e \in EnumConstructors}
    \cup {Call("OriginAgentCluster::new", <<flag>>) : flag \in BOOLEAN}
    \cup {Call("XPoweredBy::new", <<comment>>) : comment \in CommentInputs}
    \cup
    {Call("ContentSecurityPolicy::new", <<>>),
     Call("ContentSecurityPolicy::default", <<>>),
     Call("StrictTransportSecurity::new", <<>>),
     Call("StrictTransportSecurity::default", <<>>),
     Call("XXSSProtection::on", <<>>),
     Call("XXSSProtection::off", <<>>),
     Call("XFrameOptions::deny", <<>>),
     Call("XFrameOptions::same_origin", <<>>)}
    \cup {Call("XFrameOptions::allow_from", <<uri>>) : uri \in UriInputs}

\* the value a constructor call returns
Construct(c) ==
    CASE c.fn = "ContentSecurityPolicy::new" -> ContentSecurityPolicy_new
      [] c.fn = "ContentSecurityPolicy::default" -> ContentSecurityPolicy_default
      [] c.fn = "StrictTransportSecurity::new" -> StrictTransportSecurity_new
      [] c.fn = "StrictTransportSecurity::default" -> StrictTransportSecurity_default
      [] c.fn = "XXSSProtection::on" -> XXSSProtection_on
      [] c.fn = "XXSSProtection::off" -> XXSSProtection_off
      [] c.fn = "XFrameOptions::deny" -> XFrameOptions_deny
      [] c.fn = "XFrameOptions::same_origin" -> XFrameOptions_same_origin
      [] c.fn = "XFrameOptions::allow_from" -> XFrameOptions_allow_from(c.args[1])
      [] c.fn = "OriginAgentCluster::new" -> OriginAgentCluster_new(c.args[1])
      [] c.fn = "XPoweredBy::new" -> XPoweredBy_new(c.args[1])
      [] OTHER -> LET e == CHOOSE e \in EnumConstructors : e[1] = c.fn
                  IN  [family |-> e[2], variant |-> e[3]]

\* let header = <constructor>
BuilderInit ==
    /\ ctor \in Constructors
    /\ builder = Construct(ctor)
    /\ calls = <<>>
    /\ rendered = None
    /\ helmet = Helmet_new
    /\ constructed = Helmet_new
    /\ added = <<>>
    /\ mw = NoMiddleware
    /\ reqs = [r \in RequestIds |-> IdleRequest]

\* a builder method can be called on the header: it has not been moved into
\* a Helmet, and the chain is not at its bound
Building(family) ==
    /\ builder.family = family
    /\ mw.state = "none"
    /\ rendered = None
    /\ Len(calls) < MaxCalls

\* header = header.child_src(values), .connect_src(values), ...
Csp_directive(fn, values) ==
    /\ Building("ContentSecurityPolicy")
    /\ Call(fn, <<values>>) \in DirectiveInputs(builder)
    /\ builder' = ContentSecurityPolicy_with(builder, MethodVariant(fn), values)
    /\ calls' = Append(calls, Call(fn, <<values>>))
    /\ UNCHANGED <<ctor, rendered, helmetVars>>

\* header = header.upgrade_insecure_requests()
Csp_upgrade_insecure_requests ==
    /\ Building("ContentSecurityPolicy")
    /\ builder' = ContentSecurityPolicy_upgrade_insecure_requests(builder)
    /\ calls' = Append(calls, Call("upgrade_insecure_requests", <<>>))
    /\ UNCHANGED <<ctor, rendered, helmetVars>>

\* header = header.report_only()
Csp_report_only ==
    /\ Building("ContentSecurityPolicy")
    /\ builder' = ContentSecurityPolicy_report_only(builder)
    /\ calls' = Append(calls, Call("report_only", <<>>))
    /\ UNCHANGED <<ctor, rendered, helmetVars>>

\* header = header.max_age(max_age)
Sts_max_age(max_age) ==
    /\ Building("StrictTransportSecurity")
    /\ builder' = StrictTransportSecurity_max_age(builder, max_age)
    /\ calls' = Append(calls, Call("max_age", <<max_age>>))
    /\ UNCHANGED <<ctor, rendered, helmetVars>>

\* header = header.include_sub_domains()
Sts_include_sub_domains ==
    /\ Building("StrictTransportSecurity")
    /\ builder' = StrictTransportSecurity_include_sub_domains(builder)
    /\ calls' = Append(calls, Call("include_sub_domains", <<>>))
    /\ UNCHANGED <<ctor, rendered, helmetVars>>

\* header = header.preload()
Sts_preload ==
    /\ Building("StrictTransportSecurity")
    /\ builder' = StrictTransportSecurity_preload(builder)
    /\ calls' = Append(calls, Call("preload", <<>>))
    /\ UNCHANGED <<ctor, rendered, helmetVars>>

\* header = header.mode_block()
Xss_mode_block ==
    /\ Building("XXSSProtection")
    /\ builder' = XXSSProtection_mode_block(builder)
    /\ calls' = Append(calls, Call("mode_block", <<>>))
    /\ UNCHANGED <<ctor, rendered, helmetVars>>

\* header = header.report(uri)
Xss_report(uri) ==
    /\ Building("XXSSProtection")
    /\ builder' = XXSSProtection_report(builder, uri)
    /\ calls' = Append(calls, Call("report", <<uri>>))
    /\ UNCHANGED <<ctor, rendered, helmetVars>>

\* name() and value() taking from the header what they return
Render_take ==
    /\ Len(rendered) < MaxRenders
    /\ rendered' = Append(rendered,
                          [name |-> Header_name(builder), value |-> Header_value(builder)])
    /\ builder' = IF builder.family = "XXSSProtection" THEN [builder EXCEPT !.report = None]
                  ELSE IF builder.family = "ContentSecurityPolicy"
                  THEN [builder EXCEPT !.directives = <<>>]
                  ELSE builder
    /\ UNCHANGED <<ctor, calls, helmetVars>>

\* (header.name(), header.value()), on the header or, once it has been moved
\* into a Helmet, on a clone of it; both take &self
Render ==
    /\ Len(rendered) < MaxRenders
    /\ rendered' = Append(rendered,
                          [name |-> Header_name(builder), value |-> Header_value(builder)])
    /\ UNCHANGED <<ctor, builder, calls, helmetVars>>

\* TestRequest::default().to_srv_request()
TestRequest_default == WebRequest("GET", "/", "")

\* Helmet::new().add(header).create(ok_service()), then mw.call(req).await
Serve ==
    /\ mw.state = "none"
    /\ LET h == Helmet_add(Helmet_new, builder)
           m == Middleware_create(h)
       IN  /\ helmet' = h
           /\ added' = <<builder>>
           /\ mw' = m
           /\ IF m.state = "created"
              THEN \E keys \in IterOrders(m.headers) :
                     reqs' = [reqs EXCEPT ![1] =
                                [pc |-> "done", req |-> TestRequest_default,
                                 inner |-> Ok(PassthroughResponse),
                                 out |-> HelmetMiddleware_call(m, TestRequest_default,
                                             Ok(PassthroughResponse), keys).ret,
                                 invoked |-> 1]]
              ELSE reqs' = reqs
    /\ UNCHANGED <<constructed, builderVars>>

BuilderNext ==
    \/ \E call \in FirstDirectiveInputs : Csp_directive(call.fn, call.args[1])
    \/ Csp_upgrade_insecure_requests
    \/ Csp_report_only
    \/ \E max_age \in MaxAgeInputs : Sts_max_age(max_age)
    \/ Sts_include_sub_domains
    \/ Sts_preload
    \/ Xss_mode_block
    \/ \E uri \in UriInputs : Xss_report(uri)
    \/ Render
    \/ Serve

BuilderSpec == BuilderInit /\ [][BuilderNext]_vars

(***************************************************************************)
(* Vocabulary of the properties                                            *)
(***************************************************************************)
Done(r) == reqs[r].pc = "done"
\* call returned Ok(res)
Succeeded(r) == Done(r) /\ reqs[r].out.ok
\* the headers of the response the wrapped handler produced / call returned
InnerHeaders(r) == reqs[r].inner.res.headers
OutHeaders(r) == reqs[r].out.res.headers

\* the specs create was given, in the order they were added: those of the
\* constructor, then the arguments of the add calls
AddedSpecs == constructed.headers \o added

ValidName(spec) == HeaderName_try_from(Header_name(spec)).ok
ValidValue(spec) == HeaderValue_from_str(Header_value(spec)).ok

\* the wire line of a spec: its lower-cased name and its value
Line(spec) == <<ToLower(Header_name(spec)), Header_value(spec)>>
RECURSIVE Lines(_)
Lines(specs) == IF specs = <<>> THEN <<>> ELSE <<Line(Head(specs))>> \o Lines(Tail(specs))

\* the second components of the lines named `name`, in order
RECURSIVE ValuesOf(_, _)
ValuesOf(lines, name) ==
    IF lines = <<>> THEN <<>>
    ELSE (IF Head(lines)[1] = name THEN <<Head(lines)[2]>> ELSE <<>>)
         \o ValuesOf(Tail(lines), name)

\* the values a map holds under the stored (lower-case) name n
ValuesUnder(map, n) == IF n \in DOMAIN map THEN map[n] ELSE <<>>

\* number of occurrences of v in seq
Count(seq, v) == Cardinality({i \in DOMAIN seq : seq[i] = v})

(***************************************************************************)
(* C1  Helmet::default() around a passthrough handler                      *)
(***************************************************************************)
DefaultPolicy ==
    "default-src 'self'; base-uri 'self'; font-src 'self' https: data:; "
    \o "form-action 'self'; frame-ancestors 'self'; img-src 'self' data:; "
    \o "object-src 'none'; script-src 'self'; script-src-attr 'none'; "
    \o "style-src 'self' https: 'unsafe-inline'; upgrade-insecure-requests"

DefaultHeaderLines ==
    {<<"Content-Security-Policy", DefaultPolicy>>,
     <<"Cross-Origin-Opener-Policy", "same-origin">>,
     <<"Cross-Origin-Resource-Policy", "same-origin">>,
     <<"Origin-Agent-Cluster", "?1">>,
     <<"Referrer-Policy", "no-referrer">>,
     <<"Strict-Transport-Security", "max-age=15552000; includeSubDomains">>,
     <<"X-Content-Type-Options", "nosniff">>,
     <<"X-DNS-Prefetch-Control", "off">>,
     <<"X-Download-Options", "noopen">>,
     <<"X-Frame-Options", "SAMEORIGIN">>,
     <<"X-Permitted-Cross-Domain-Policies", "none">>,
     <<"X-XSS-Protection", "0">>}

\* request r went through a middleware created from Helmet::default() with
\* nothing added, and the handler answered like ok_service()
DefaultPassthrough(r) ==
    /\ constructed = Helmet_default
    /\ added = <<>>
    /\ Succeeded(r)
    /\ reqs[r].inner.res = PassthroughResponse

InjectedHeaders(r) ==
    LET names == {n \in DOMAIN OutHeaders(r) :
                    Len(OutHeaders(r)[n]) > Len(ValuesUnder(InnerHeaders(r), n))}
    IN  [n \in names |->
            SubSeq(OutHeaders(r)[n], Len(ValuesUnder(InnerHeaders(r), n)) + 1,
                   Len(OutHeaders(r)[n]))]

\* the names of the lines, each once, in the order of their first occurrence
RECURSIVE FirstOccurrences(_, _)
FirstOccurrences(lines, seen) ==
    IF lines = <<>> THEN <<>>
    ELSE IF Head(lines)[1] \in seen THEN FirstOccurrences(Tail(lines), seen)
    ELSE <<Head(lines)[1]>> \o FirstOccurrences(Tail(lines), seen \cup {Head(lines)[1]})

C3_NoDedup ==
    LET lines == Lines(AddedSpecs)
    IN  \A r \in RequestIds :
            Succeeded(r) =>
                /\ HeaderMap_len(OutHeaders(r)) =
                       HeaderMap_len(InnerHeaders(r)) + Len(constructed.headers) + Len(added)
                /\ \A l \in Range(lines) :
                       Len(ValuesUnder(OutHeaders(r), l[1]))
                         - Len(ValuesUnder(InnerHeaders(r), l[1]))
                       = Cardinality({i \in DOMAIN lines : lines[i][1] = l[1]})

\* a response through a middleware to which the same spec was added twice
C3_Witness ==
    \E r \in RequestIds :
        /\ Succeeded(r)
        /\ Len(added) >= 2
        /\ added[1] = added[2]
        /\ Len(HeaderMap_get_all(OutHeaders(r), Header_name(added[1]))) >= 2

(***************************************************************************)
(* C4  append, not replace                                                 *)
(***************************************************************************)
\* C4: every (name, value) of the handler's response is still in the
\* response call returns, as often as the handler set it, also under a name
\* the middleware injects; status and body are the handler's.
C4_HandlerHeadersKept ==
    \A r \in RequestIds :
        Succeeded(r) =>
            /\ reqs[r].out.res.status = reqs[r].inner.res.status
            /\ reqs[r].out.res.body = reqs[r].inner.res.body
            /\ \A n \in DOMAIN InnerHeaders(r) :
                   /\ n \in DOMAIN OutHeaders(r)
                   /\ \A v \in Range(InnerHeaders(r)[n]) :
                          Count(OutHeaders(r)[n], v) >= Count(InnerHeaders(r)[n], v)

\* the handler set a header under a name the middleware injects too, and
\* the response holds both
C4_Witness ==
    \E r \in RequestIds :
        /\ Succeeded(r)
        /\ \E n \in DOMAIN InnerHeaders(r) \cap DOMAIN mw.headers :
               Len(OutHeaders(r)[n]) > Len(mw.headers[n])

(***************************************************************************)
(* C5  failure of the wrapped handler                                      *)
(***************************************************************************)
\* C5: when the wrapped handler fails, call returns the handler's error as
\* it is, with no response and so no header appended, and the handler was
\* invoked once.
C5_ErrorPropagated ==
    \A r \in RequestIds :
        (Done(r) /\ ~reqs[r].inner.ok) =>
            /\ reqs[r].out = Err(reqs[r].inner.err)
            /\ reqs[r].out.res.headers = HeaderMap_new
            /\ reqs[r].invoked = 1

\* a failed handler behind a middleware that has headers to inject
C5_Witness ==
    \E r \in RequestIds :
        /\ Done(r) /\ ~reqs[r].inner.ok
        /\ reqs[r].inner.err \in HandlerErrors
        /\ mw.headers # HeaderMap_new

(***************************************************************************)
(* C6  create fails fast                                                   *)
(***************************************************************************)
\* C6: create panics exactly when some spec of the policy set renders a
\* name or a value that is no valid header field component, and then there
\* is no middleware (no header list, no call); add takes every spec, valid
\* or not, and stores it.
C6_CreateFailsFast ==
    /\ mw.state # "none" =>
          (mw.state = "panicked" <=>
              \E i \in DOMAIN AddedSpecs :
                  ~ValidName(AddedSpecs[i]) \/ ~ValidValue(AddedSpecs[i]))
    /\ mw.state = "panicked" =>
          /\ mw.headers = HeaderMap_new
          /\ mw.panic \in {"invalid header name", "invalid header value"}
          /\ \A r \in RequestIds : reqs[r].pc = "idle"
    /\ helmet.headers = AddedSpecs
    /\ (mw.state = "none" /\ Len(added) < MaxAdds) =>
          \A header \in SpecInputs : ENABLED Add(header)

\* create panicked on a value with a control character that add had taken
C6_Witness ==
    /\ mw.state = "panicked"
    /\ mw.panic = "invalid header value"
    /\ \E i \in DOMAIN helmet.headers :
          helmet.headers[i] = XFrameOptions_allow_from("https://a\nb")

(***************************************************************************)
(* C7  no configuration error per request                                  *)
(***************************************************************************)
\* C7: every name and value a created middleware stores is a valid header
\* name (in its stored, lower-case form) and a valid header value, so the
\* appends of call cannot fail; a call fails only when the wrapped handler
\* failed, and then with the handler's error.
C7_NoPerRequestConfigError ==
    /\ mw.state = "created" =>
          \A n \in DOMAIN mw.headers :
              /\ HeaderName_try_from(n) = [ok |-> TRUE, v |-> n]
              /\ \A v \in Range(mw.headers[n]) : HeaderValue_from_str(v).ok
    /\ \A r \in RequestIds :
          Done(r) =>
              /\ reqs[r].out.ok <=> reqs[r].inner.ok
              /\ ~reqs[r].out.ok =>
                    /\ reqs[r].out.err = reqs[r].inner.err
                    /\ reqs[r].out.err \in HandlerErrors

\* a call that succeeds after an earlier call on the same middleware failed
\* in the handler
C7_Witness ==
    \E r1, r2 \in RequestIds :
        /\ r1 # r2
        /\ Done(r1) /\ ~reqs[r1].out.ok
        /\ Succeeded(r2)
        /\ mw.headers # HeaderMap_new

(***************************************************************************)
(* C8  all-or-nothing injection                                            *)
(***************************************************************************)
\* C8: every response call returns holds, besides the handler's lines, each
\* stored (name, value) line exactly as often as the middleware stores it:
\* none missing, none twice, for every request.
C8_AllOrNothing ==
    \A r \in RequestIds :
        Succeeded(r) =>
            \A n \in DOMAIN OutHeaders(r) \cup DOMAIN mw.headers :
                \A v \in Range(ValuesUnder(OutHeaders(r), n))
                           \cup Range(ValuesUnder(mw.headers, n)) :
                    Count(ValuesUnder(OutHeaders(r), n), v)
                      = Count(ValuesUnder(InnerHeaders(r), n), v)
                          + Count(ValuesUnder(mw.headers, n), v)

\* every request has been answered, at least two of them with a response,
\* by a middleware storing several lines
C8_Witness ==
    /\ \A r \in RequestIds : Done(r)
    /\ Cardinality({r \in RequestIds : Succeeded(r)}) >= 2
    /\ HeaderMap_len(mw.headers) >= 2

(***************************************************************************)
(* C9  nothing is computed from the request                                *)
(***************************************************************************)
\* C9: two calls on the middleware whose handlers returned the same response
\* return the same response, whatever the two requests were.
C9_RequestIndependent ==
    \A r1, r2 \in RequestIds :
        (Succeeded(r1) /\ Succeeded(r2) /\ reqs[r1].inner = reqs[r2].inner) =>
            reqs[r1].out = reqs[r2].out

\* two different requests, one with an Origin header, answered alike by the
\* handler
C9_Witness ==
    \E r1, r2 \in RequestIds :
        /\ Succeeded(r1) /\ Succeeded(r2)
        /\ reqs[r1].inner = reqs[r2].inner
        /\ reqs[r1].req.method # reqs[r2].req.method
        /\ reqs[r1].req.origin # reqs[r2].req.origin
        /\ mw.headers # HeaderMap_new

(***************************************************************************)
(* C10  the stored list is immutable                                       *)
(***************************************************************************)
\* the middleware create computes from the specs that were added
CreatedFromAdded == Middleware_create([headers |-> AddedSpecs])

\* the stored list is the one computed at create, and every successful
\* response holds, after the handler's values, the whole list
StoredListServed ==
    LET created == CreatedFromAdded
    IN  mw.state = "created" =>
            /\ mw = created
            /\ \A r \in RequestIds :
                  Succeeded(r) =>
                      \A n \in DOMAIN created.headers :
                          ValuesUnder(OutHeaders(r), n)
                            = ValuesUnder(InnerHeaders(r), n) \o created.headers[n]

\* C10: no step changes a created middleware, whatever requests are
\* suspended at the await or completing, and at every moment the stored list
\* is the one computed at create and every successful response holds it whole.
C10_StoredListImmutable ==
    /\ [][mw.state = "created" => mw' = mw]_vars
    /\ []StoredListServed

\* a request completed with a response while another was suspended at the
\* await and a third party, if any, had failed or not
C10_Witness ==
    \E r1, r2 \in RequestIds :
        /\ r1 # r2
        /\ Succeeded(r1)
        /\ reqs[r2].pc = "awaiting"
        /\ mw.headers # HeaderMap_new

(***************************************************************************)
(* C11  headers are appended after the handler has resolved                *)
(***************************************************************************)
\* what a request holds before call has returned: no response, no header
NothingReturned(r) == reqs[r].out = IdleRequest.out

\* in every state: a call that has not started has not invoked the wrapped
\* service; a call suspended at the await has invoked it once and has
\* returned nothing; a call that returned invoked it once, and returned a
\* response only if the wrapped service resolved to one
AppendOrder ==
    \A r \in RequestIds :
        /\ reqs[r].pc = "idle" => (reqs[r].invoked = 0 /\ NothingReturned(r))
        /\ reqs[r].pc = "awaiting" => (reqs[r].invoked = 1 /\ NothingReturned(r))
        /\ Done(r) => reqs[r].invoked = 1
        /\ Succeeded(r) => reqs[r].inner.ok

\* C11: the lines of the middleware reach a response only in the step in
\* which the wrapped service's future resolves to that response, never
\* before; and the wrapped service is invoked exactly once per call.
C11_AppendAfterResolve ==
    /\ []AppendOrder
    /\ [][\A r \in RequestIds :
             reqs'[r].out # reqs[r].out =>
                 /\ reqs[r].pc = "awaiting" /\ reqs'[r].pc = "done"
                 /\ reqs'[r].invoked = reqs[r].invoked
                 /\ reqs'[r].out.ok =>
                       /\ reqs'[r].inner.ok
                       /\ \A n \in DOMAIN mw.headers :
                              ValuesUnder(reqs'[r].out.res.headers, n)
                                = ValuesUnder(reqs'[r].inner.res.headers, n) \o mw.headers[n]]_vars

\* one call has returned a response with injected lines while another is
\* still suspended at the await
C11_Witness ==
    \E r1, r2 \in RequestIds :
        /\ Succeeded(r1)
        /\ OutHeaders(r1) # InnerHeaders(r1)
        /\ reqs[r1].invoked = 1
        /\ reqs[r2].pc = "awaiting"
        /\ reqs[r2].invoked = 1

(***************************************************************************)
(* Vocabulary of the properties of the builder chains                      *)
(***************************************************************************)
IsRendered == rendered # None
RenderedName == rendered[1].name
RenderedValue == rendered[1].value
\* the header went through Helmet::new().add(header) and reached a response
IsServed == mw.state = "created" /\ Succeeded(1)

\* the calls named fn / not named fn, in call order
CallsOf(fn) == SelectSeq(calls, LAMBDA c : c.fn = fn)
CallsBut(fn) == SelectSeq(calls, LAMBDA c : c.fn # fn)
Called(fn) == CallsOf(fn) # <<>>
\* the argument of the last call of fn, or dflt when fn was not called
LastArg(fn, dflt) ==
    IF Called(fn) THEN CallsOf(fn)[Len(CallsOf(fn))].args[1] ELSE dflt

\* s with every _ turned into -
RECURSIVE Hyphenated(_)
Hyphenated(s) ==
    IF s = "" THEN ""
    ELSE (IF Head(s) = Head("_") THEN "-" ELSE SubSeq(s, 1, 1)) \o Hyphenated(Tail(s))

\* the strings of seq with sep between each two
RECURSIVE Separated(_, _)
Separated(seq, sep) ==
    IF seq = <<>> THEN ""
    ELSE IF Len(seq) = 1 THEN seq[1]
    ELSE Separated(SubSeq(seq, 1, Len(seq) - 1), sep) \o sep \o seq[Len(seq)]

\* number of places at which sub occurs in s
Occurrences(s, sub) ==
    Cardinality({i \in 1..(Len(s) - Len(sub) + 1) : SubSeq(s, i, i + Len(sub) - 1) = sub})

\* the fragment the specification gives the directive of a builder call: its
\* keyword (the method's name, hyphenated) and its values, space-separated;
\* the bare keyword for upgrade_insecure_requests; both clauses for report_to
Fragment(call) ==
    IF call.fn = "upgrade_insecure_requests" THEN "upgrade-insecure-requests"
    ELSE IF call.fn = "report_to"
    THEN "report-to " \o Separated(call.args[1], " ")
         \o "; report-uri " \o Separated(call.args[1], " ")
    ELSE Hyphenated(call.fn) \o " " \o Separated(call.args[1], " ")

\* the fragments of the default policy
DefaultFragments ==
    <<"default-src 'self'", "base-uri 'self'", "font-src 'self' https: data:",
      "form-action 'self'", "frame-ancestors 'self'", "img-src 'self' data:",
      "object-src 'none'", "script-src 'self'", "script-src-attr 'none'",
      "style-src 'self' https: 'unsafe-inline'", "upgrade-insecure-requests">>

\* the fragments of the directives added so far: the constructor's, then one
\* per directive-adding call
AddedFragments ==
    LET added_calls == CallsBut("report_only")
    IN  (IF ctor.fn = "ContentSecurityPolicy::default" THEN DefaultFragments ELSE <<>>)
        \o [i \in DOMAIN added_calls |-> Fragment(added_calls[i])]

(***************************************************************************)
(* C12  the policy value is the fragments in the order added               *)
(***************************************************************************)
\* C12: after any chain of builder calls, value() of a ContentSecurityPolicy
\* is the fragment of every directive added, each one (a kind added twice is
\* rendered twice), in the order of the calls, with "; " between each two
\* and nothing after the last.
C12_DirectivesInAddOrder ==
    (builder.family = "ContentSecurityPolicy" /\ IsRendered) =>
        RenderedValue = Separated(AddedFragments, "; ")

\* child_src, then connect_src, then child_src again with other values
C12_Witness ==
    /\ builder.family = "ContentSecurityPolicy" /\ IsRendered
    /\ ctor.fn = "ContentSecurityPolicy::new"
    /\ Len(calls) = 3
    /\ calls[1].fn = "child_src" /\ calls[2].fn = "connect_src" /\ calls[3].fn = "child_src"
    /\ calls[1].args # calls[3].args
    /\ RenderedValue = "child-src 'self'; connect-src 'self'; child-src 'self' https://youtube.com"

(***************************************************************************)
(* C13  ContentSecurityPolicy::default()                                   *)
(***************************************************************************)
\* C13: ContentSecurityPolicy::default() has the name Content-Security-Policy
\* and the literal default value.
C13_DefaultPolicy ==
    (ctor.fn = "ContentSecurityPolicy::default" /\ calls = <<>> /\ IsRendered) =>
        /\ RenderedName = "Content-Security-Policy"
        /\ RenderedValue = DefaultPolicy

C13_Witness ==
    /\ ctor.fn = "ContentSecurityPolicy::default" /\ calls = <<>> /\ IsRendered
    /\ Len(builder.directives) = 11

(***************************************************************************)
(* C14  a policy to which no directive was added                           *)
(***************************************************************************)
\* the caller added no directive: every call made was report_only
NoDirectiveAdded ==
    /\ builder.family = "ContentSecurityPolicy"
    /\ CallsBut("report_only") = <<>>

\* C14 as stated: a ContentSecurityPolicy to which the caller added no
\* directive renders the default directive list, whichever of new() and
\* default() made it.
C14_DefaultWhenNoneAdded ==
    (NoDirectiveAdded /\ IsRendered) => RenderedValue = DefaultPolicy

\* C14 amended: a ContentSecurityPolicy to which the caller added no directive
\* renders what its constructor holds: the default directive list when made by
\* default(), the empty string when made by new(); and that value is the one
\* a response carries.
C14_ConstructorDecides ==
    LET value == IF ctor.fn = "ContentSecurityPolicy::default" THEN DefaultPolicy ELSE ""
    IN  NoDirectiveAdded =>
            /\ IsRendered => RenderedValue = value
            /\ IsServed => \A n \in DOMAIN OutHeaders(1) : OutHeaders(1)[n] = <<value>>

\* new() with no directive, rendered (to the empty string) and served
C14_Witness ==
    /\ NoDirectiveAdded /\ IsRendered /\ IsServed
    /\ ctor.fn = "ContentSecurityPolicy::new"
    /\ RenderedValue = ""
    /\ HeaderMap_get(OutHeaders(1), "Content-Security-Policy") = Some("")

(***************************************************************************)
(* C15  report_to renders report-to and report-uri                         *)
(***************************************************************************)
\* the fragment of report_to(values)
ReportToFragment(values) ==
    "report-to " \o Separated(values, " ") \o "; report-uri " \o Separated(values, " ")

\* C15: report_to(V) renders as the one fragment "report-to V; report-uri V",
\* the values of V space-separated and in order under both names; a policy
\* holds one report-uri clause per report_to call and none from any other
\* directive.
C15_ReportToBothClauses ==
    (builder.family = "ContentSecurityPolicy" /\ IsRendered) =>
        LET directive_calls == CallsBut("report_only")
        IN  /\ Occurrences(RenderedValue, "report-uri") = Len(CallsOf("report_to"))
            /\ \A call \in Range(CallsOf("report_to")) :
                   Occurrences(RenderedValue, ReportToFragment(call.args[1])) >= 1
            /\ (ctor.fn = "ContentSecurityPolicy::new" /\ Len(directive_calls) = 1
                  /\ directive_calls[1].fn = "report_to") =>
                   RenderedValue = ReportToFragment(directive_calls[1].args[1])

\* report_to(["a", "b"]) alone
C15_Witness ==
    /\ builder.family = "ContentSecurityPolicy" /\ IsRendered
    /\ calls = <<Call("report_to", << <<"a", "b">> >>)>>
    /\ RenderedValue = "report-to a b; report-uri a b"

(***************************************************************************)
(* C16  report_only selects the header name                                *)
(***************************************************************************)
\* C16: once report_only() was called anywhere in the chain, name() is
\* Content-Security-Policy-Report-Only, and Content-Security-Policy without
\* it; a response through a Helmet holding only that policy carries the
\* policy's value under that name and nothing under the other name.
C16_ReportOnlyName ==
    builder.family = "ContentSecurityPolicy" =>
        LET report_only == Called("report_only")
            name == IF report_only THEN "Content-Security-Policy-Report-Only"
                    ELSE "Content-Security-Policy"
            other == IF report_only THEN "Content-Security-Policy"
                     ELSE "Content-Security-Policy-Report-Only"
        IN  /\ IsRendered => RenderedName = name
            /\ IsServed =>
                  /\ HeaderMap_get(OutHeaders(1), name) = Some(Separated(AddedFragments, "; "))
                  /\ HeaderMap_get(OutHeaders(1), other) = None

\* report_only() called between two directives, rendered and served
C16_Witness ==
    /\ builder.family = "ContentSecurityPolicy" /\ IsRendered /\ IsServed
    /\ Len(calls) = 3
    /\ calls[1].fn = "base_uri" /\ calls[2].fn = "report_only" /\ calls[3].fn = "child_src"
    /\ HeaderMap_get(OutHeaders(1), "Content-Security-Policy") = None
    /\ HeaderMap_get(OutHeaders(1), "Content-Security-Policy-Report-Only") # None

(***************************************************************************)
(* C17  report_only leaves the value alone                                 *)
(***************************************************************************)
\* a builder call applied to a header
ApplyCall(self, call) ==
    CASE call.fn = "report_only" -> ContentSecurityPolicy_report_only(self)
      [] call.fn = "upgrade_insecure_requests" ->
            ContentSecurityPolicy_upgrade_insecure_requests(self)
      [] call.fn = "max_age" -> StrictTransportSecurity_max_age(self, call.args[1])
      [] call.fn = "include_sub_domains" -> StrictTransportSecurity_include_sub_domains(self)
      [] call.fn = "preload" -> StrictTransportSecurity_preload(self)
      [] call.fn = "mode_block" -> XXSSProtection_mode_block(self)
      [] call.fn = "report" -> XXSSProtection_report(self, call.args[1])
      [] OTHER -> ContentSecurityPolicy_with(self, MethodVariant(call.fn), call.args[1])

RECURSIVE Replay(_, _)
Replay(self, cs) == IF cs = <<>> THEN self ELSE Replay(ApplyCall(self, Head(cs)), Tail(cs))

\* C17: a chain with report_only() calls in it, wherever and however many,
\* builds the policy that the chain without them followed by one report_only()
\* builds (report_only commutes with the directive calls and is idempotent),
\* and that policy has the value of the policy built without report_only.
C17_ReportOnlyKeepsValue ==
    (builder.family = "ContentSecurityPolicy" /\ Called("report_only")) =>
        LET plain == Replay(Construct(ctor), CallsBut("report_only"))
        IN  /\ builder = ContentSecurityPolicy_report_only(plain)
            /\ Header_value(builder) = Header_value(plain)
            /\ Header_value(ContentSecurityPolicy_report_only(builder)) = Header_value(builder)
            /\ IsRendered => RenderedValue = Header_value(plain)

\* report_only() called twice, a directive in between, and rendered
C17_Witness ==
    /\ builder.family = "ContentSecurityPolicy" /\ IsRendered
    /\ Len(calls) = 3
    /\ calls[1].fn = "report_only" /\ calls[3].fn = "report_only"
    /\ calls[2].fn = "script_src"
    /\ RenderedValue = "script-src 'self'"

(***************************************************************************)
(* C18  Strict-Transport-Security                                          *)
(***************************************************************************)
\* n in decimal
RECURSIVE Decimal(_)
Decimal(n) ==
    LET digit == <<"0", "1", "2", "3", "4", "5", "6", "7", "8", "9">>[(n % 10) + 1]
    IN  IF n < 10 THEN digit ELSE Decimal(n \div 10) \o digit

\* C18: value() of a StrictTransportSecurity is "max-age=" and the decimal of
\* the last max_age given (31536000 when none was, for new() and default()),
\* then "; includeSubDomains" iff include_sub_domains() was called, then
\* "; preload" iff preload() was called, in that order whatever the order of
\* the calls.
C18_StrictTransportSecurityValue ==
    (builder.family = "StrictTransportSecurity" /\ IsRendered) =>
        RenderedValue =
            "max-age=" \o Decimal(LastArg("max_age", 31536000))
            \o (IF Called("include_sub_domains") THEN "; includeSubDomains" ELSE "")
            \o (IF Called("preload") THEN "; preload" ELSE "")

\* preload() called before include_sub_domains(), with the largest max_age
C18_Witness ==
    /\ builder.family = "StrictTransportSecurity" /\ IsRendered
    /\ Len(calls) = 3
    /\ calls[1].fn = "preload" /\ calls[2].fn = "max_age" /\ calls[3].fn = "include_sub_domains"
    /\ RenderedValue = "max-age=2147483647; includeSubDomains; preload"

(***************************************************************************)
(* C19  X-XSS-Protection                                                   *)
(***************************************************************************)
\* C19: value() of an XXSSProtection is "0" when it was made by off(),
\* whatever was called on it; made by on(), it is "1", then "; mode=block"
\* iff mode_block() was called, then "; report=" and the last uri given iff
\* report() was called.
C19_XXSSProtectionValue ==
    (builder.family = "XXSSProtection" /\ IsRendered) =>
        RenderedValue =
            IF ctor.fn = "XXSSProtection::off" THEN "0"
            ELSE "1" \o (IF Called("mode_block") THEN "; mode=block" ELSE "")
                     \o (IF Called("report") THEN "; report=" \o LastArg("report", "") ELSE "")

\* on() with a report uri and no mode_block
C19_Witness ==
    /\ builder.family = "XXSSProtection" /\ IsRendered
    /\ ctor.fn = "XXSSProtection::on"
    /\ calls = <<Call("report", <<"https://example.com">>)>>
    /\ RenderedValue = "1; report=https://example.com"

FamilyWireName ==
    {<<"CrossOriginEmbedderPolicy", "Cross-Origin-Embedder-Policy">>,
     <<"CrossOriginOpenerPolicy", "Cross-Origin-Opener-Policy">>,
     <<"CrossOriginResourcePolicy", "Cross-Origin-Resource-Policy">>,
     <<"OriginAgentCluster", "Origin-Agent-Cluster">>,
     <<"ReferrerPolicy", "Referrer-Policy">>,
     <<"StrictTransportSecurity", "Strict-Transport-Security">>,
     <<"XContentTypeOptions", "X-Content-Type-Options">>,
     <<"XDNSPrefetchControl", "X-DNS-Prefetch-Control">>,
     <<"XDownloadOptions", "X-Download-Options">>,
     <<"XFrameOptions", "X-Frame-Options">>,
     <<"XPermittedCrossDomainPolicies", "X-Permitted-Cross-Domain-Policies">>,
     <<"XXSSProtection", "X-XSS-Protection">>,
     <<"XPoweredBy", "X-Powered-By">>}

\* the wire value of each variant, by the constructor that makes it
VariantWireValue ==
    {<<"CrossOriginEmbedderPolicy::unsafe_none", "unsafe-none">>,
     <<"CrossOriginEmbedderPolicy::require_corp", "require-corp">>,
     <<"CrossOriginEmbedderPolicy::credentialless", "credentialless">>,
     <<"CrossOriginOpenerPolicy::same_origin", "same-origin">>,
     <<"CrossOriginOpenerPolicy::same_origin_allow_popups", "same-origin-allow-popups">>,
     <<"CrossOriginOpenerPolicy::unsafe_none", "unsafe-none">>,
     <<"CrossOriginResourcePolicy::same_origin", "same-origin">>,
     <<"CrossOriginResourcePolicy::same_site", "same-site">>,
     <<"CrossOriginResourcePolicy::cross_origin", "cross-origin">>,
     <<"ReferrerPolicy::no_referrer", "no-referrer">>,
     <<"ReferrerPolicy::no_referrer_when_downgrade", "no-referrer-when-downgrade">>,
     <<"ReferrerPolicy::origin", "origin">>,
     <<"ReferrerPolicy::origin_when_cross_origin", "origin-when-cross-origin">>,
     <<"ReferrerPolicy::same_origin", "same-origin">>,
     <<"ReferrerPolicy::strict_origin", "strict-origin">>,
     <<"ReferrerPolicy::strict_origin_when_cross_origin", "strict-origin-when-cross-origin">>,
     <<"ReferrerPolicy::unsafe_url", "unsafe-url">>,
     <<"XContentTypeOptions::nosniff", "nosniff">>,
     <<"XDNSPrefetchControl::off", "off">>,
     <<"XDNSPrefetchControl::on", "on">>,
     <<"XDownloadOptions::noopen", "noopen">>,
     <<"XPermittedCrossDomainPolicies::none", "none">>,
     <<"XPermittedCrossDomainPolicies::master_only", "master-only">>,
     <<"XPermittedCrossDomainPolicies::by_content_type", "by-content-type">>,
     <<"XPermittedCrossDomainPolicies::by_ftp_filename", "by-ftp-filename">>,
     <<"XPermittedCrossDomainPolicies::all", "all">>}

\* C21: name() is the one wire name of the header's family, whatever the
\* fields (only ContentSecurityPolicy has two), and value() is the literal of
\* the variant table: the dashed lower-case token of each enum variant, ?1 or
\* ?0 for OriginAgentCluster, the given string for XPoweredBy.
C21_VariantTable ==
    IsRendered =>
        /\ IF builder.family = "ContentSecurityPolicy"
           THEN RenderedName \in {"Content-Security-Policy",
                                  "Content-Security-Policy-Report-Only"}
           ELSE <<builder.family, RenderedName>> \in FamilyWireName
        /\ ctor.fn \in {e[1] : e \in VariantWireValue} =>
               <<ctor.fn, RenderedValue>> \in VariantWireValue
        /\ ctor.fn = "OriginAgentCluster::new" =>
               RenderedValue = (IF ctor.args[1] THEN "?1" ELSE "?0")
        /\ ctor.fn = "XPoweredBy::new" => RenderedValue = ctor.args[1]

\* the longest token of the tables
C21_Witness ==
    /\ IsRendered
    /\ ctor.fn = "CrossOriginOpenerPolicy::same_origin_allow_popups"
    /\ RenderedName = "Cross-Origin-Opener-Policy"
    /\ RenderedValue = "same-origin-allow-popups"

C23_DefaultFrameOptionsLowerCase ==
    \A r \in RequestIds :
        DefaultPassthrough(r) =>
            HeaderMap_get_all(OutHeaders(r), "X-Frame-Options") = <<"sameorigin">>

(***************************************************************************)
(* C24  Helmet::new() injects nothing                                      *)
(***************************************************************************)
\* the Helmet is Helmet::new() with nothing added
EmptyHelmet == constructed = Helmet_new /\ added = <<>>

\* C24: a middleware created from Helmet::new() with nothing added stores no
\* line, and what call returns for a request is what the wrapped handler
\* returned: the same status, body and header collection, or the same error.
C24_NewInjectsNothing ==
    EmptyHelmet =>
        /\ mw.state = "created" => mw.headers = HeaderMap_new
        /\ \A r \in RequestIds : Done(r) => reqs[r].out = reqs[r].inner

\* the handler answered with headers of its own through an empty Helmet
C24_Witness ==
    \E r \in RequestIds :
        /\ EmptyHelmet
        /\ Succeeded(r)
        /\ reqs[r].inner.res = OwnHeadersResponse
        /\ reqs[r].out.res = OwnHeadersResponse

(***************************************************************************)
(* C30  the handler's values stay first under a shared name                *)
(***************************************************************************)
\* C30: under every name the handler's response carries, the values of the
\* response call returns begin with the handler's values in their order, the
\* injected ones follow, and get() of the name returns the handler's first
\* value.
C30_HandlerValueFirst ==
    \A r \in RequestIds :
        Succeeded(r) =>
            \A n \in DOMAIN InnerHeaders(r) :
                /\ n \in DOMAIN OutHeaders(r)
                /\ Len(OutHeaders(r)[n]) >= Len(InnerHeaders(r)[n])
                /\ SubSeq(OutHeaders(r)[n], 1, Len(InnerHeaders(r)[n])) = InnerHeaders(r)[n]
                /\ HeaderMap_get(OutHeaders(r), n) = HeaderMap_get(InnerHeaders(r), n)

\* the handler set X-Frame-Options: DENY, Helmet::default() injects
\* SAMEORIGIN, and the lookup gives DENY
C30_Witness ==
    \E r \in RequestIds :
        /\ Succeeded(r)
        /\ constructed = Helmet_default
        /\ reqs[r].inner.res = OwnHeadersResponse
        /\ OutHeaders(r)["x-frame-options"] = <<"DENY", "SAMEORIGIN">>
        /\ HeaderMap_get(OutHeaders(r), "X-Frame-Options") = Some("DENY")

(***************************************************************************)
(* C26  directive values are rendered as given                             *)
(***************************************************************************)
\* the policy was made by new() and one directive method, with values, was
\* called on it (report_only() may have been called too)
OneDirective ==
    /\ builder.family = "ContentSecurityPolicy"
    /\ ctor.fn = "ContentSecurityPolicy::new"
    /\ Len(CallsBut("report_only")) = 1
    /\ CallsBut("report_only")[1].fn \in DirectiveMethods \ {"report_to"}
TheDirective == CallsBut("report_only")[1]

\* the summed lengths of the first k strings of seq
RECURSIVE LenSum(_, _)
LenSum(seq, k) == IF k = 0 THEN 0 ELSE LenSum(seq, k - 1) + Len(seq[k])

\* C26: the value of a policy with one directive is the keyword, then for
\* each value given, in the order given, one space and the value itself,
\* character for character: a value given twice is there twice, a value that
\* holds a space or "; " is there unchanged, and there is nothing else.
C26_ValuesVerbatim ==
    (OneDirective /\ IsRendered) =>
        LET values == TheDirective.args[1]
            keyword == Len(TheDirective.fn)
            start(k) == keyword + LenSum(values, k - 1) + k
        IN  /\ Len(RenderedValue) =
                  IF values = <<>> THEN keyword + 1
                  ELSE keyword + LenSum(values, Len(values)) + Len(values)
            /\ SubSeq(RenderedValue, 1, keyword) = Hyphenated(TheDirective.fn)
            /\ \A k \in DOMAIN values :
                  /\ SubSeq(RenderedValue, start(k), start(k)) = " "
                  /\ SubSeq(RenderedValue, start(k) + 1, start(k) + Len(values[k])) = values[k]

\* a value with "; " and spaces in it, given twice, next to one with a space
C26_Witness ==
    /\ OneDirective /\ IsRendered
    /\ TheDirective = Call("img_src", << <<"a; script-src *", "b c", "a; script-src *">> >>)
    /\ RenderedValue = "img-src a; script-src * b c a; script-src *"

LastMaxAge(cs) ==
    LET given == SelectSeq(cs, LAMBDA c : c.fn = "max_age")
    IN  IF given = <<>> THEN None ELSE Some(given[Len(given)].args[1])

\* C28: every reordering of the chain of builder calls that leaves the same
\* max_age call last among the max_age calls builds a header with the value
\* rendered; calling a flag method again changes nothing; a flag method once
\* called has its flag set at the end of the chain; and max-age is the
\* argument of the last max_age call.
C28_OrderInsensitive ==
    (builder.family = "StrictTransportSecurity" /\ IsRendered) =>
        LET value(cs) == Header_value(Replay(Construct(ctor), cs))
            reordered(p) == [i \in DOMAIN calls |-> calls[p[i]]]
        IN  /\ \A p \in Permutations(DOMAIN calls) :
                  LastMaxAge(reordered(p)) = LastMaxAge(calls) =>
                      value(reordered(p)) = RenderedValue
            /\ \A fn \in {"include_sub_domains", "preload"} :
                  Called(fn) =>
                      /\ value(CallsBut(fn) \o <<Call(fn, <<>>)>>) = RenderedValue
                      /\ value(calls \o <<Call(fn, <<>>)>>) = RenderedValue
            /\ Called("include_sub_domains") => builder.include_sub_domains
            /\ Called("preload") => builder.preload
            /\ builder.max_age = LastArg("max_age", 31536000)

\* a flag set before two max_age calls
C28_Witness ==
    /\ builder.family = "StrictTransportSecurity" /\ IsRendered
    /\ calls = <<Call("include_sub_domains", <<>>), Call("max_age", <<0>>),
                 Call("max_age", <<15552000>>)>>
    /\ RenderedValue = "max-age=15552000; includeSubDomains"

(***************************************************************************)
(* C29  directives without values                                          *)
(***************************************************************************)
\* C29: a policy holds one directive per directive-adding call (after the 11
\* of default()), with or without values; a policy without directives has
\* the value ""; a directive without values, alone in a policy, renders as
\* its keyword and one space, report_to as "report-to ; report-uri ".
C29_EmptyDirectiveKept ==
    (builder.family = "ContentSecurityPolicy" /\ IsRendered) =>
        LET directive_calls == CallsBut("report_only")
        IN  /\ Len(builder.directives) =
                  Len(directive_calls)
                  + (IF ctor.fn = "ContentSecurityPolicy::default" THEN 11 ELSE 0)
            /\ builder.directives = <<>> => RenderedValue = ""
            /\ ( /\ ctor.fn = "ContentSecurityPolicy::new"
                 /\ Len(directive_calls) = 1
                 /\ directive_calls[1].fn \in DirectiveMethods
                 /\ directive_calls[1].args[1] = <<>> ) =>
                   RenderedValue =
                       IF directive_calls[1].fn = "report_to" THEN "report-to ; report-uri "
                       ELSE Hyphenated(directive_calls[1].fn) \o " "

\* sandbox(vec![]) alone in a policy
C29_Witness ==
    /\ builder.family = "ContentSecurityPolicy" /\ IsRendered
    /\ ctor.fn = "ContentSecurityPolicy::new"
    /\ calls = <<Call("sandbox", << <<>> >>)>>
    /\ Len(builder.directives) = 1
    /\ RenderedValue = "sandbox "

(***************************************************************************)
(* C25  the specs are rendered by create, and only by create               *)
(***************************************************************************)
\* what the headers of the user type in the Helmet render now, in Vec order
VersionedNow ==
    LET versioned == SelectSeq(helmet.headers, LAMBDA h : h.family = "Versioned")
    IN  [i \in DOMAIN versioned |-> "v" \o Decimal(versioned[i].epoch)]

\* the values the middleware stores / request r's response holds under the
\* name of the user type (the handler sets none under it)
VersionedStored == ValuesUnder(mw.headers, "x-config-version")
VersionedServed(r) == ValuesUnder(OutHeaders(r), "x-config-version")

\* C25: the step in which create runs stores, for each header, the value it
\* renders in that step, once; no later step changes what the middleware
\* stores, whatever the headers would render by then; and a call that
\* returns a response puts into it the stored values, not what the headers
\* render at that time.
C25_RenderedByCreateOnly ==
    [][ /\ (mw.state = "none" /\ mw'.state = "created") =>
               ValuesUnder(mw'.headers, "x-config-version") = VersionedNow
        /\ mw.state = "created" => mw' = mw
        /\ \A r \in RequestIds :
               (reqs[r].pc = "awaiting" /\ reqs'[r].pc = "done" /\ reqs'[r].out.ok) =>
                   ValuesUnder(reqs'[r].out.res.headers, "x-config-version")
                       = VersionedStored ]_vars

\* create ran when the header rendered v1; the header renders v2 by now, and
\* both responses, one of them started before the last store, hold v1
C25_Witness ==
    /\ VersionedNow = <<"v2">>
    /\ VersionedStored = <<"v1">>
    /\ \A r \in RequestIds : Succeeded(r) /\ VersionedServed(r) = <<"v1">>

====
